---- MODULE Spec2Model ----
(***************************************************************************)
(* State-machine model of the diagram engine of src/wasm/src/lib.rs:       *)
(* DiagramEngine owns one Diagram (shapes, connectors, settings and the    *)
(* two timestamps); every exported method is one action.                   *)
(*                                                                         *)
(* Conventions.                                                            *)
(*  - An f64 is Fin(n) for the integer n, or Dbl for a double that is no   *)
(*    integer, named by its shortest decimal, or NaN.  The text of a       *)
(*    number is written and read digit by digit, as serde_json does with   *)
(*    the features the crate has by default (ryu to write, and to read a   *)
(*    u64 of the digits divided by a power of ten, without the             *)
(*    float_roundtrip feature).  The number texts of the model have no     *)
(*    exponent part and at most ten digits before the point, and stand for *)
(*    0 or for doubles from 10^-5 up to 2^31 in size.  The arithmetic of   *)
(*    snap_to_grid and find_shape_at is modelled on the integers, where    *)
(*    the arithmetic of the code is exact; the one non-finite result it    *)
(*    gives on them, the NaN of a division by a zero grid, is the value    *)
(*    NaN.  NegZero is the double -0.0: the integer 0 for the arithmetic   *)
(*    and for Rust's ==, and a value of its own for serde_json, which      *)
(*    writes it -0.0; the text -0, which serde_json reads as that double,  *)
(*    is written as the text -0.0 is.                                      *)
(*  - A JSON text is modelled by its syntax tree: InvalidJson for a text   *)
(*    that is not JSON, otherwise a tagged value (Num, Dec, Str, Bool,     *)
(*    Null, Obj, Arr).  Num(n) is a number written without a point, Dec a  *)
(*    number written with one.  An object is a function from its keys to   *)
(*    values (a text that repeats a key is not modelled), an array a       *)
(*    sequence.  A value inside n one-element arrays, [[..[v]..]], is also *)
(*    written Nest(n, v) so that a text nested as deep as the parser's     *)
(*    recursion limit is a small term.                                     *)
(*  - Option<T> is None or Some(v).                                        *)
(*  - js_sys::Date is the host clock, the variable clock (milliseconds).   *)
(***************************************************************************)
EXTENDS Integers, Sequences, FiniteSets, TLC

VARIABLES
    diagram,    \* DiagramEngine.diagram
    clock,      \* the host clock, in ms, as read by js_sys::Date::new_0()
    last        \* the latest call: its name, its arguments, what it returned

vars == <<diagram, clock, last>>

----------------------------------------------------------------------------
(* Bounds of the model                                                     *)

MaxShapes == 2
MaxConnectors == 2
MaxTicks == 1

----------------------------------------------------------------------------
(* Values                                                                  *)

None == [some |-> FALSE]
Some(v) == [some |-> TRUE, val |-> v]

Ok == [ok |-> TRUE]
OkVal(v) == [ok |-> TRUE, val |-> v]
Err(msg) == [ok |-> FALSE, err |-> msg]

NaN == [k |-> "nan"]
Fin(n) == [k |-> "fin", n |-> n]
\* the double -0.0
NegZero == [k |-> "fin", n |-> 0, neg |-> TRUE]

InvalidJson == [t |-> "invalid"]
Null == [t |-> "null"]
Num(n) == [t |-> "num", n |-> n]
\* the number text (-)int.frac, both the sequences of their decimal digits
Dec(neg, int, frac) == [t |-> "dec", neg |-> neg, int |-> int, frac |-> frac]
Str(s) == [t |-> "str", s |-> s]
Bool(b) == [t |-> "bool", b |-> b]
Obj(o) == [t |-> "obj", o |-> o]

Arr(a) == [t |-> "arr", a |-> a]
\* v inside n >= 1 arrays of one element each
Nest(n, v) == [t |-> "nest", n |-> n, v |-> v]

\* the value is a JSON array
IsArr(v) == v.t \in {"arr", "nest"}
\* the elements of a JSON array
Elements(v) ==
    IF v.t = "arr" THEN v.a
    ELSE IF v.n = 1 THEN <<v.v>> ELSE <<Nest(v.n - 1, v.v)>>

Max(S) == CHOOSE n \in S : \A m \in S : m <= n

----------------------------------------------------------------------------
(* Numbers: the text of a JSON number and the f64 it stands for            *)

\* An f64 is Fin(n), the integer n, or NaN, or a finite double that is no
\* integer, named by the shortest decimal that reads back as this double
\* under round to nearest (the one ryu prints): the sign, the digits before
\* the point and the digits after it.
Dbl(neg, int, frac) == [k |-> "dec", neg |-> neg, int |-> int, frac |-> frac]

\* Naturals of any size, for the 64-bit significand and the exact quotients
\* of the float arithmetic: the sequence of the limbs in base 10^4, lowest
\* first, with no zero limb on top; <<>> is 0.
Base == 10000

Pow10Small(i) == CASE i = 0 -> 1 [] i = 1 -> 10 [] i = 2 -> 100 [] i = 3 -> 1000

BigTrim(a) == SubSeq(a, 1, Max({0} \cup {i \in 1..Len(a) : a[i] # 0}))

\* the natural written by the decimal digits ds, highest first
BigOfDigits(ds) ==
    LET n == Len(ds)
        digit(p) == IF p < n THEN ds[n - p] ELSE 0
    IN  BigTrim([j \in 1..((n + 3) \div 4) |->
                    digit(4 * (j - 1)) + 10 * digit(4 * (j - 1) + 1)
                    + 100 * digit(4 * (j - 1) + 2)
                    + 1000 * digit(4 * (j - 1) + 3)])

\* the decimal digit of a at 10^p
DigitAt(a, p) == (a[p \div 4 + 1] \div Pow10Small(p % 4)) % 10

\* its decimal digits, highest first, as many as it has (none for 0)
BigDigits(a) ==
    LET top == Max({-1} \cup {p \in 0..(4 * Len(a) - 1) : DigitAt(a, p) # 0})
    IN  [i \in 1..(top + 1) |-> DigitAt(a, top + 1 - i)]

\* a < b: by the highest limb in which they differ
BigLt(a, b) ==
    IF Len(a) # Len(b) THEN Len(a) < Len(b)
    ELSE LET top == Max({0} \cup {i \in 1..Len(a) : a[i] # b[i]})
         IN  top # 0 /\ a[top] < b[top]

BigLeq(a, b) == a = b \/ BigLt(a, b)

RECURSIVE BigAddFrom(_, _, _, _)
BigAddFrom(a, b, i, carry) ==
    IF i > Len(a) /\ i > Len(b)
    THEN IF carry = 0 THEN <<>> ELSE <<carry>>
    ELSE LET sum == (IF i <= Len(a) THEN a[i] ELSE 0)
                    + (IF i <= Len(b) THEN b[i] ELSE 0) + carry
         IN  <<sum % Base>> \o BigAddFrom(a, b, i + 1, sum \div Base)

BigAdd(a, b) == BigAddFrom(a, b, 1, 0)

\* a - b, for b <= a
RECURSIVE BigSubFrom(_, _, _, _)
BigSubFrom(a, b, i, borrow) ==
    IF i > Len(a) THEN <<>>
    ELSE LET diff == a[i] - (IF i <= Len(b) THEN b[i] ELSE 0) - borrow
         IN  <<diff % Base>>
                 \o BigSubFrom(a, b, i + 1, IF diff < 0 THEN 1 ELSE 0)

BigSub(a, b) == BigTrim(BigSubFrom(a, b, 1, 0))

\* a * m, for 0 < m <= Base
RECURSIVE BigMulFrom(_, _, _, _)
BigMulFrom(a, m, i, carry) ==
    IF i > Len(a)
    THEN IF carry = 0 THEN <<>> ELSE <<carry>>
    ELSE LET prod == a[i] * m + carry
         IN  <<prod % Base>> \o BigMulFrom(a, m, i + 1, prod \div Base)

BigMul(a, m) == BigTrim(BigMulFrom(a, m, 1, 0))

\* the quotient of the limbs a[1..i] by m and the remainder, for
\* 0 < m <= Base; rem is what the limbs above have left.  The top limb of
\* a, not zero, is the one limb that can give a zero at the top of the
\* quotient, which is left out.
RECURSIVE BigDivFrom(_, _, _, _)
BigDivFrom(a, m, i, rem) ==
    IF i = 0 THEN [q |-> <<>>, r |-> rem]
    ELSE LET cur == rem * Base + a[i]
             rest == BigDivFrom(a, m, i - 1, cur % m)
         IN  [q |-> IF i = Len(a) /\ cur < m THEN rest.q
                    ELSE Append(rest.q, cur \div m),
              r |-> rest.r]

\* the quotient and the remainder of a by m, for 0 < m <= Base
BigDiv(a, m) == BigDivFrom(a, m, Len(a), 0)

\* a * 2^t
RECURSIVE BigMulPow2(_, _)
BigMulPow2(a, t) ==
    IF t <= 13 THEN BigMul(a, 2^t) ELSE BigMulPow2(BigMul(a, 2^13), t - 13)

\* a * 5^p
RECURSIVE BigMulPow5(_, _)
BigMulPow5(a, p) ==
    IF p <= 5 THEN BigMul(a, 5^p) ELSE BigMulPow5(BigMul(a, 5^5), p - 5)

\* a * 10^k
BigMulPow10(a, k) ==
    IF a = <<>> THEN <<>>
    ELSE [i \in 1..(k \div 4) |-> 0] \o BigMul(a, Pow10Small(k % 4))

\* the quotient of a by 10^k, and whether the division is exact
BigDivPow10(a, k) ==
    LET d == BigDiv(SubSeq(a, k \div 4 + 1, Len(a)), Pow10Small(k % 4))
    IN  [q |-> d.q,
         exact |-> d.r = 0 /\ \A i \in 1..(k \div 4) : i > Len(a) \/ a[i] = 0]

\* the quotient of a by 2^t, and whether the division is exact
RECURSIVE BigDivPow2(_, _)
BigDivPow2(a, t) ==
    IF t <= 13
    THEN LET d == BigDiv(a, 2^t) IN [q |-> d.q, exact |-> d.r = 0]
    ELSE LET d == BigDiv(a, 2^13)
             rest == BigDivPow2(d.q, t - 13)
         IN  [q |-> rest.q, exact |-> d.r = 0 /\ rest.exact]

\* the number of binary digits of a
RECURSIVE BitLen(_)
BitLen(a) ==
    IF Len(a) <= 1
    THEN Cardinality({i \in 0..13 : a # <<>> /\ 2^i <= a[1]})
    ELSE 13 + BitLen(BigDiv(a, 2^13).q)

BigOdd(a) == a # <<>> /\ a[1] % 2 = 1

\* The doubles of the float arithmetic: m * 2^e, m a natural below 2^53.
MantissaBits == 53

\* m * 2^e, with the m rounded up to 2^53 written as 2^52
Normal(m, e) ==
    IF BitLen(m) > MantissaBits
    THEN [m |-> BigDiv(m, 2).q, e |-> e + 1]
    ELSE [m |-> m, e |-> e]

\* Round to nearest, ties to even, of a natural d.q of one binary digit
\* more than are kept, times 2^(e-1): the last digit is the half of a unit
\* of the last digit kept, and goes up when something lies beyond it (d or
\* the number is not exact) or the digit before it is odd.
RoundDropped(d, e, exact) ==
    Normal(BigDiv(IF /\ BigOdd(d.q)
                     /\ (~(exact /\ d.exact) \/ (d.q[1] \div 2) % 2 = 1)
                  THEN BigAdd(d.q, <<1>>) ELSE d.q, 2).q, e)

\* the digits beyond the one after the last kept go first
RoundBits(n, e, exact, bits) ==
    IF bits <= MantissaBits THEN [m |-> n, e |-> e]
    ELSE RoundDropped(BigDivPow2(n, bits - MantissaBits - 1),
                      e + bits - MantissaBits, exact)

\* the double nearest to d.q * 2^e (to the number just above it when d is
\* not exact)
RoundF64(d, e) == RoundBits(d.q, e, d.exact, BitLen(d.q))

\* `significand as f64`: a u64 as the nearest double
U64AsF64(significand) == RoundF64([q |-> significand, exact |-> TRUE], 0)

\* serde_json's table POW10: the double nearest to 10^k, which is 10^k up
\* to k = 22 and not from k = 23 on
POW10(k) == RoundF64([q |-> BigMulPow10(<<1>>, k), exact |-> TRUE], 0)

\* Long division in base 16, the highest digit first.  s.a is what is left
\* of the dividend, s.d the divisor times 2^s.i, s.q the digits found so
\* far; the next digit is the number of times s.d goes into s.a.  At the
\* end: the quotient, and whether the division is exact.
RECURSIVE BigDivBits(_)
BigDivBits(s) ==
    IF s.i < 0 THEN [q |-> s.q, exact |-> s.a = <<>>]
    ELSE LET digit == Cardinality({c \in 1..15 : BigLeq(BigMul(s.d, c), s.a)})
         IN  BigDivBits([a |-> BigSub(s.a, BigMul(s.d, digit)),
                         d |-> BigDiv(s.d, 16).q,
                         i |-> s.i - 4,
                         q |-> BigAdd(BigMul(s.q, 16), BigTrim(<<digit>>))])

\* f / g, for f # 0, from the quotient of f.m * 2^t by g.m, a natural of 54
\* or 55 binary digits (14 digits in base 16)
F64DivAt(f, g, t) ==
    RoundF64(BigDivBits([a |-> BigMulPow2(f.m, t), d |-> BigMulPow2(g.m, 52),
                         i |-> 52, q |-> <<>>]),
             f.e - g.e - t)

\* `f /= POW10[k]` in IEEE arithmetic, for k <= 308 (the size of the table).
\* Up to k = 22 the double of the table is 10^k, and the quotient is taken
\* with the division by a power of ten of the naturals: of f.m * 2^t by
\* 10^k, a natural of 54 or 55 binary digits.
F64DivPow10(f, k) ==
    LET t == MantissaBits + 1 - BitLen(f.m) + BitLen(BigMulPow10(<<1>>, k))
    IN  IF f.m = <<>> THEN f
        ELSE IF k <= 22
        THEN RoundF64(BigDivPow10(BigMulPow2(f.m, t), k), f.e - t)
        ELSE F64DivAt(f, POW10(k), MantissaBits + 1 - BitLen(f.m)
                                       + BitLen(POW10(k).m))

\* the decimal digits of the natural n, highest first, at least one
DigitsOfNat(n) ==
    IF n = 0 THEN <<0>>
    ELSE BigDigits(BigTrim(<<n % Base, (n \div Base) % Base,
                             n \div (Base * Base)>>))

\* seventeen significant digits tell any two doubles apart
MaxDigits == 17

\* ryu, as serde_json prints a finite f64: the shortest decimal that reads
\* back as this double under round to nearest, the nearest to it of those.
\* The double is m * 2^-p, no integer, m of 53 binary digits.  In units of
\* 10^-(p+2): the double is the natural of the digits y; half the gap to the
\* next double is above, to the one before is below (a quarter of the gap
\* when m is 2^52); a decimal that far off still reads back as the double
\* when m is even (closed).  Cut after its first n digits, y leaves the
\* natural tail below it and gap to the decimal of n digits above.
Within(dist, half, closed) ==
    IF closed THEN BigLeq(dist, half) ELSE BigLt(dist, half)

\* one of the two decimals of that many digits next to y reads back
FitsTail(tail, dropped, above, below, closed) ==
    \/ Within(tail, below, closed)
    \/ Within(BigSub(BigMulPow10(<<1>>, dropped), tail), above, closed)

Fits(y, n, above, below, closed) ==
    FitsTail(BigOfDigits(SubSeq(y, n + 1, Len(y))), Len(y) - n,
             above, below, closed)

\* the decimal above is the one to print: the only one of the two that
\* reads back, or the nearer one, or at the same distance the even one
RoundsUp(tail, gap, kept, above, below, closed) ==
    IF Within(tail, below, closed) /\ Within(gap, above, closed)
    THEN BigLt(gap, tail) \/ (gap = tail /\ BigOdd(kept))
    ELSE Within(gap, above, closed)

\* the digits all, worth 10^scale each unit of the last, with the point and
\* without the zeros they end in
PlacePoint(neg, all, scale) ==
    LET digits == SubSeq(all, 1, Max({0} \cup {i \in 1..Len(all) : all[i] # 0}))
        point == Len(all) + scale
    IN  IF point >= 1
        THEN Dbl(neg, SubSeq(digits, 1, point),
                 SubSeq(digits, point + 1, Len(digits)))
        ELSE Dbl(neg, <<0>>, [i \in 1..(-point) |-> 0] \o digits)

ShortestTail(neg, kept, tail, dropped, above, below, closed, scale) ==
    PlacePoint(neg,
               BigDigits(IF RoundsUp(tail,
                                     BigSub(BigMulPow10(<<1>>, dropped), tail),
                                     kept, above, below, closed)
                         THEN BigAdd(kept, <<1>>) ELSE kept),
               scale)

ShortestCut(neg, y, n, above, below, closed, p) ==
    ShortestTail(neg, BigOfDigits(SubSeq(y, 1, n)),
                 BigOfDigits(SubSeq(y, n + 1, Len(y))), Len(y) - n,
                 above, below, closed, Len(y) - n - (p + 2))

\* the fewest digits that fit: when n digits fit, so do more
ShortestIn(neg, y, above, below, closed, p) ==
    ShortestCut(neg, y,
                MaxDigits + 1 - Cardinality({n \in 1..MaxDigits :
                                    Fits(y, n, above, below, closed)}),
                above, below, closed, p)

ShortestNear(neg, m, p, above, lowest) ==
    ShortestIn(neg, BigDigits(BigMul(BigMulPow5(m, p), 100)), above,
               IF lowest THEN BigDiv(above, 2).q ELSE above, ~BigOdd(m), p)

Shortest(neg, m, p) ==
    ShortestNear(neg, m, p, BigMul(BigMulPow5(<<1>>, p + 1), 10),
                 BitLen(BigSub(m, <<1>>)) < MantissaBits)

\* the natural below 2^31, with its sign, as an integer f64; the zero with
\* the minus sign is the double -0.0
FinOf(neg, a) ==
    LET limb(i) == IF i <= Len(a) THEN a[i] ELSE 0
    IN  IF neg /\ a = <<>> THEN NegZero
        ELSE Fin((IF neg THEN -1 ELSE 1)
                     * (limb(1) + limb(2) * Base + limb(3) * Base * Base))

\* the f64 of the model that is the double: an integer when the division
\* of m by 2^-e is exact
F64Of(neg, f) ==
    LET whole == BigDivPow2(f.m, -f.e)
    IN  IF f.m = <<>> THEN FinOf(neg, <<>>)
        ELSE IF whole.exact THEN FinOf(neg, whole.q)
        ELSE Shortest(neg, f.m, -f.e)

\* serde_json's f64_from_parts, without the float_roundtrip feature, for an
\* exponent that is not positive: `significand as f64` divided by the
\* double of the table for the power of ten, each of the two rounded.  A
\* significand below 2^53 is a double as it is, and when the power of ten
\* divides it (a power up to 10^15 then, or the significand is 0) the
\* quotient is that integer.
f64_from_parts(neg, significand, exponent) ==
    LET whole == BigDivPow10(significand, -exponent)
    IN  IF /\ BitLen(significand) <= MantissaBits
           /\ whole.exact /\ BitLen(whole.q) <= 31
        THEN FinOf(neg, whole.q)
        ELSE F64Of(neg, F64DivPow10(U64AsF64(significand), -exponent))

U64Max == BigSub(BigMulPow2(<<1>>, 64), <<1>>)

\* serde_json reading the number (-)int.frac (parse_integer, parse_decimal):
\* the digits go into a u64 until the next one would overflow it, the
\* fraction digits from that one on are dropped, and the exponent counts
\* the fraction digits read.
parse_decimal(neg, int, frac) ==
    LET all == int \o frac
        read == Cardinality({c \in 1..Len(all) :
                                BigLeq(BigOfDigits(SubSeq(all, 1, c)), U64Max)})
    IN  f64_from_parts(neg, BigOfDigits(SubSeq(all, 1, read)), Len(int) - read)

\* serde_json writing a finite f64 (ryu's format_finite): an integer n as
\* n.0, any other double as its shortest decimal
write_f64(x) ==
    IF x.k = "fin"
    THEN Dec(x.n < 0 \/ x = NegZero,
             DigitsOfNat(IF x.n < 0 THEN -x.n ELSE x.n), <<0>>)
    ELSE Dec(x.neg, x.int, x.frac)

\* A JSON number as an f64: a number without a point is read as an integer
\* and converted, which is exact; one with a point goes through
\* parse_decimal.
as_f64(v) == IF v.t = "num" THEN Fin(v.n) ELSE parse_decimal(v.neg, v.int, v.frac)

----------------------------------------------------------------------------
(* Reading JSON                                                            *)

\* serde_json::Value::get(key): a member of an object, None for anything else
Has(j, key) == j.t = "obj" /\ key \in DOMAIN j.o
\* .get(key).and_then(|v| v.as_f64()) is Some
HasF64(j, key) == Has(j, key) /\ j.o[key].t \in {"num", "dec"}
\* .get(key).and_then(|v| v.as_str()) is Some
HasStr(j, key) == Has(j, key) /\ j.o[key].t = "str"
HasBool(j, key) == Has(j, key) /\ j.o[key].t = "bool"

\* #[serde(rename_all = "camelCase")] on ShapeType: the JSON tag of a variant
ShapeTypeOfTag(tag) ==
    CASE tag = "rectangle" -> "Rectangle"
      [] tag = "circle"    -> "Circle"
      [] tag = "diamond"   -> "Diamond"
      [] tag = "text"      -> "Text"

ShapeTypeTags == {"rectangle", "circle", "diamond", "text"}

\* The derived Deserialize of ShapeType, an enum of unit variants: serde_json
\* reads a variant from its tag as a string, or from an object of one key,
\* the tag, whose value is null.
deserialize_ShapeType(v) ==
    IF v.t = "str" /\ v.s \in ShapeTypeTags
    THEN Some(ShapeTypeOfTag(v.s))
    ELSE IF /\ v.t = "obj"
            /\ \E tag \in ShapeTypeTags : DOMAIN v.o = {tag} /\ v.o[tag] = Null
         THEN Some(ShapeTypeOfTag(CHOOSE tag \in ShapeTypeTags : DOMAIN v.o = {tag}))
         ELSE None

\* The fields of the structs in the order of their declaration, under the
\* names #[serde(rename...)] gives them.
ShapeFieldNames ==
    <<"id", "type", "x", "y", "width", "height", "rotation",
      "fill", "stroke", "strokeWidth", "text">>
ConnectorFieldNames ==
    <<"id", "fromShapeId", "toShapeId", "fromAnchor", "toAnchor",
      "stroke", "strokeWidth">>
DiagramSettingsFieldNames ==
    <<"backgroundColor", "gridEnabled", "snapToGrid", "gridSize">>
DiagramFieldNames ==
    <<"id", "name", "shapes", "connectors", "settings", "createdAt", "updatedAt">>

\* The derived Deserialize of a struct: serde_json reads it from an object,
\* field by key (visit_map), or from an array that holds every field, the
\* optional one included, in the order of declaration and nothing more
\* (visit_seq).  The result is the object of the fields; a value of another
\* shape is returned as it is and has no field.
deserialize_struct(j, fields) ==
    IF IsArr(j) /\ Len(Elements(j)) = Len(fields)
    THEN Obj([key \in {fields[i] : i \in 1..Len(fields)} |->
                 Elements(j)[CHOOSE i \in 1..Len(fields) : fields[i] = key]])
    ELSE IF j.t = "obj" THEN j ELSE InvalidJson

\* serde_json::from_str::<Shape>: every field but the Option is required,
\* unknown keys are ignored, a missing or null text is None
from_str_Shape(j) ==
    LET m == deserialize_struct(j, ShapeFieldNames) IN
    IF /\ m.t = "obj"
       /\ HasStr(m, "id")
       /\ Has(m, "type") /\ deserialize_ShapeType(m.o["type"]).some
       /\ HasF64(m, "x") /\ HasF64(m, "y")
       /\ HasF64(m, "width") /\ HasF64(m, "height")
       /\ HasF64(m, "rotation")
       /\ HasStr(m, "fill") /\ HasStr(m, "stroke")
       /\ HasF64(m, "strokeWidth")
       /\ (Has(m, "text") => m.o["text"].t \in {"str", "null"})
    THEN OkVal([id |-> m.o["id"].s,
                shape_type |-> deserialize_ShapeType(m.o["type"]).val,
                x |-> as_f64(m.o["x"]),
                y |-> as_f64(m.o["y"]),
                width |-> as_f64(m.o["width"]),
                height |-> as_f64(m.o["height"]),
                rotation |-> as_f64(m.o["rotation"]),
                fill |-> m.o["fill"].s,
                stroke |-> m.o["stroke"].s,
                stroke_width |-> as_f64(m.o["strokeWidth"]),
                text |-> IF HasStr(m, "text") THEN Some(m.o["text"].s) ELSE None])
    ELSE Err("Parse error")

\* serde_json::from_str::<Connector>
from_str_Connector(j) ==
    LET m == deserialize_struct(j, ConnectorFieldNames) IN
    IF /\ m.t = "obj"
       /\ HasStr(m, "id")
       /\ HasStr(m, "fromShapeId") /\ HasStr(m, "toShapeId")
       /\ HasStr(m, "fromAnchor") /\ HasStr(m, "toAnchor")
       /\ HasStr(m, "stroke")
       /\ HasF64(m, "strokeWidth")
    THEN OkVal([id |-> m.o["id"].s,
                from_shape_id |-> m.o["fromShapeId"].s,
                to_shape_id |-> m.o["toShapeId"].s,
                from_anchor |-> m.o["fromAnchor"].s,
                to_anchor |-> m.o["toAnchor"].s,
                stroke |-> m.o["stroke"].s,
                stroke_width |-> as_f64(m.o["strokeWidth"])])
    ELSE Err("Parse error")

\* serde_json::from_str::<DiagramSettings>
from_str_DiagramSettings(j) ==
    LET m == deserialize_struct(j, DiagramSettingsFieldNames) IN
    IF /\ m.t = "obj"
       /\ HasStr(m, "backgroundColor")
       /\ HasBool(m, "gridEnabled") /\ HasBool(m, "snapToGrid")
       /\ HasF64(m, "gridSize")
    THEN OkVal([background_color |-> m.o["backgroundColor"].s,
                grid_enabled |-> m.o["gridEnabled"].b,
                snap_to_grid |-> m.o["snapToGrid"].b,
                grid_size |-> as_f64(m.o["gridSize"])])
    ELSE Err("Parse error")

\* serde_json counts the arrays and objects it is inside of while it reads
\* a Value and gives up ("recursion limit exceeded") on entering the 128th.
RecursionLimit == 128

\* the number of arrays and objects nested in one another in a JSON value
RECURSIVE Depth(_)
Depth(j) ==
    IF j.t = "arr"
    THEN 1 + Max({0} \cup {Depth(j.a[i]) : i \in 1..Len(j.a)})
    ELSE IF j.t = "nest"
    THEN j.n + Depth(j.v)
    ELSE IF j.t = "obj"
    THEN 1 + Max({0} \cup {Depth(j.o[key]) : key \in DOMAIN j.o})
    ELSE 0

\* serde_json::from_str::<serde_json::Value>: any JSON text parses that is
\* nested less deep than the recursion limit
from_str_Value(j) ==
    IF j.t = "invalid" \/ Depth(j) >= RecursionLimit
    THEN Err("Parse error")
    ELSE OkVal(j)

\* Date.toISOString(): the seconds and the milliseconds of the
\* "...:ss.sssZ" text; ISO texts compare like these pairs
to_iso_string(ms) == [sec |-> ms \div 1000, msec |-> ms % 1000]

IsoLeq(a, b) == a.sec < b.sec \/ (a.sec = b.sec /\ a.msec <= b.msec)
IsoLt(a, b) == a.sec < b.sec \/ (a.sec = b.sec /\ a.msec < b.msec)

----------------------------------------------------------------------------
(* The engine                                                              *)

DiagramSettings_default ==
    [background_color |-> "#ffffff",
     grid_enabled |-> TRUE,
     snap_to_grid |-> TRUE,
     grid_size |-> Fin(20)]

\* new taking the name for the id as well
new_name_as_id(id, name, now) ==
    [id |-> name,
     name |-> name,
     shapes |-> <<>>,
     connectors |-> <<>>,
     settings |-> DiagramSettings_default,
     created_at |-> to_iso_string(now),
     updated_at |-> to_iso_string(now)]

new(id, name, now) ==
    [id |-> id,
     name |-> name,
     shapes |-> <<>>,
     connectors |-> <<>>,
     settings |-> DiagramSettings_default,
     created_at |-> to_iso_string(now),
     updated_at |-> to_iso_string(now)]

\* update_timestamp writing both timestamps
update_timestamp_both(d, now) ==
    [d EXCEPT !.updated_at = to_iso_string(now), !.created_at = to_iso_string(now)]

update_timestamp(d, now) == [d EXCEPT !.updated_at = to_iso_string(now)]

\* Every method below returns the diagram it leaves and what it returns.
Return(d, res) == [diagram |-> d, res |-> res]

\* add_shape putting the shape first instead of last
add_shape_in_front(d, shape_json, now) ==
    LET shape == from_str_Shape(shape_json) IN
    IF ~shape.ok THEN Return(d, shape)
    ELSE Return(update_timestamp(
                    [d EXCEPT !.shapes = <<shape.val>> \o d.shapes], now),
                Ok)

add_shape(d, shape_json, now) ==
    LET shape == from_str_Shape(shape_json) IN
    IF ~shape.ok THEN Return(d, shape)
    ELSE Return(update_timestamp(
                    [d EXCEPT !.shapes = Append(d.shapes, shape.val)], now),
                Ok)

\* find returning the last match instead of the first
find_by_id_last(shapes, shape_id) ==
    IF \E i \in 1..Len(shapes) : shapes[i].id = shape_id
    THEN Some(CHOOSE i \in 1..Len(shapes) :
                /\ shapes[i].id = shape_id
                /\ \A k \in (i + 1)..Len(shapes) : shapes[k].id # shape_id)
    ELSE None

\* shapes.iter_mut().find(|s| s.id == shape_id): the first match, if any
find_by_id(shapes, shape_id) ==
    IF \E i \in 1..Len(shapes) : shapes[i].id = shape_id
    THEN Some(CHOOSE i \in 1..Len(shapes) :
                /\ shapes[i].id = shape_id
                /\ \A k \in 1..(i - 1) : shapes[k].id # shape_id)
    ELSE None

\* apply_updates replacing the text by what the patch holds, absent or not
apply_updates_replaces_text(shape, updates) ==
    [shape EXCEPT
        !.x = IF HasF64(updates, "x") THEN as_f64(updates.o["x"]) ELSE @,
        !.y = IF HasF64(updates, "y") THEN as_f64(updates.o["y"]) ELSE @,
        !.width = IF HasF64(updates, "width") THEN as_f64(updates.o["width"]) ELSE @,
        !.height = IF HasF64(updates, "height") THEN as_f64(updates.o["height"]) ELSE @,
        !.rotation = IF HasF64(updates, "rotation") THEN as_f64(updates.o["rotation"]) ELSE @,
        !.fill = IF HasStr(updates, "fill") THEN updates.o["fill"].s ELSE @,
        !.stroke = IF HasStr(updates, "stroke") THEN updates.o["stroke"].s ELSE @,
        !.stroke_width = IF HasF64(updates, "strokeWidth")
                         THEN as_f64(updates.o["strokeWidth"]) ELSE @,
        !.text = IF HasStr(updates, "text") THEN Some(updates.o["text"].s) ELSE None]

\* apply_updates taking the id from the patch as well
apply_updates_with_id(shape, updates) ==
    [shape EXCEPT
        !.id = IF HasStr(updates, "id") THEN updates.o["id"].s ELSE @,
        !.x = IF HasF64(updates, "x") THEN as_f64(updates.o["x"]) ELSE @,
        !.y = IF HasF64(updates, "y") THEN as_f64(updates.o["y"]) ELSE @,
        !.width = IF HasF64(updates, "width") THEN as_f64(updates.o["width"]) ELSE @,
        !.height = IF HasF64(updates, "height") THEN as_f64(updates.o["height"]) ELSE @,
        !.rotation = IF HasF64(updates, "rotation") THEN as_f64(updates.o["rotation"]) ELSE @,
        !.fill = IF HasStr(updates, "fill") THEN updates.o["fill"].s ELSE @,
        !.stroke = IF HasStr(updates, "stroke") THEN updates.o["stroke"].s ELSE @,
        !.stroke_width = IF HasF64(updates, "strokeWidth")
                         THEN as_f64(updates.o["strokeWidth"]) ELSE @,
        !.text = IF HasStr(updates, "text") THEN Some(updates.o["text"].s) ELSE @]

\* the nine `if let Some(..) = updates.get(..).and_then(..)` of update_shape
apply_updates(shape, updates) ==
    [shape EXCEPT
        !.x = IF HasF64(updates, "x") THEN as_f64(updates.o["x"]) ELSE @,
        !.y = IF HasF64(updates, "y") THEN as_f64(updates.o["y"]) ELSE @,
        !.width = IF HasF64(updates, "width") THEN as_f64(updates.o["width"]) ELSE @,
        !.height = IF HasF64(updates, "height") THEN as_f64(updates.o["height"]) ELSE @,
        !.rotation = IF HasF64(updates, "rotation") THEN as_f64(updates.o["rotation"]) ELSE @,
        !.fill = IF HasStr(updates, "fill") THEN updates.o["fill"].s ELSE @,
        !.stroke = IF HasStr(updates, "stroke") THEN updates.o["stroke"].s ELSE @,
        !.stroke_width = IF HasF64(updates, "strokeWidth")
                         THEN as_f64(updates.o["strokeWidth"]) ELSE @,
        !.text = IF HasStr(updates, "text") THEN Some(updates.o["text"].s) ELSE @]

update_shape(d, shape_id, updates_json, now) ==
    LET updates == from_str_Value(updates_json)
        found == find_by_id(d.shapes, shape_id)
    IN  IF ~updates.ok THEN Return(d, updates)
        ELSE IF found.some
        THEN Return(update_timestamp(
                        [d EXCEPT !.shapes[found.val] =
                                      apply_updates(@, updates.val)], now),
                    Ok)
        ELSE Return(d, Err("Shape not found"))

\* delete_shape dropping every connector once a shape goes
delete_shape_clears_connectors(d, shape_id, now) ==
    LET initial_len == Len(d.shapes)
        keep_shape(s) == s.id # shape_id
        keep_connector(c) == c.from_shape_id # shape_id /\ c.to_shape_id # shape_id
        retained == [d EXCEPT !.shapes = SelectSeq(@, keep_shape),
                              !.connectors = SelectSeq(@, keep_connector)]
    IN  IF Len(retained.shapes) < initial_len
        THEN Return(update_timestamp([retained EXCEPT !.connectors = <<>>], now), Ok)
        ELSE Return(retained, Err("Shape not found"))

\* delete_shape with a cascade that looks at the source end only
delete_shape_from_only(d, shape_id, now) ==
    LET initial_len == Len(d.shapes)
        keep_shape(s) == s.id # shape_id
        keep_connector(c) == c.from_shape_id # shape_id
        retained == [d EXCEPT !.shapes = SelectSeq(@, keep_shape),
                              !.connectors = SelectSeq(@, keep_connector)]
    IN  IF Len(retained.shapes) < initial_len
        THEN Return(update_timestamp(retained, now), Ok)
        ELSE Return(retained, Err("Shape not found"))

\* delete_shape removing the first shape of that id only
delete_shape_first_only(d, shape_id, now) ==
    LET found == find_by_id(d.shapes, shape_id)
        keep_connector(c) == c.from_shape_id # shape_id /\ c.to_shape_id # shape_id
        retained == [d EXCEPT !.connectors = SelectSeq(@, keep_connector)]
    IN  IF found.some
        THEN Return(update_timestamp(
                        [retained EXCEPT !.shapes =
                             SubSeq(@, 1, found.val - 1)
                                 \o SubSeq(@, found.val + 1, Len(@))], now),
                    Ok)
        ELSE Return(retained, Err("Shape not found"))

\* Both retains run before the length test: the connectors are filtered
\* whether or not a shape was removed.
delete_shape(d, shape_id, now) ==
    LET initial_len == Len(d.shapes)
        keep_shape(s) == s.id # shape_id
        keep_connector(c) == c.from_shape_id # shape_id /\ c.to_shape_id # shape_id
        retained == [d EXCEPT !.shapes = SelectSeq(@, keep_shape),
                              !.connectors = SelectSeq(@, keep_connector)]
    IN  IF Len(retained.shapes) < initial_len
        THEN Return(update_timestamp(retained, now), Ok)
        ELSE Return(retained, Err("Shape not found"))

add_connector(d, connector_json, now) ==
    LET connector == from_str_Connector(connector_json) IN
    IF ~connector.ok THEN Return(d, connector)
    ELSE Return(update_timestamp(
                    [d EXCEPT !.connectors = Append(d.connectors, connector.val)],
                    now),
                Ok)

\* delete_connector removing the first connector of that id only
delete_connector_first_only(d, connector_id, now) ==
    LET found == find_by_id(d.connectors, connector_id)
    IN  IF found.some
        THEN Return(update_timestamp(
                        [d EXCEPT !.connectors =
                             SubSeq(@, 1, found.val - 1)
                                 \o SubSeq(@, found.val + 1, Len(@))], now),
                    Ok)
        ELSE Return(d, Err("Connector not found"))

delete_connector(d, connector_id, now) ==
    LET initial_len == Len(d.connectors)
        keep_connector(c) == c.id # connector_id
        retained == [d EXCEPT !.connectors = SelectSeq(@, keep_connector)]
    IN  IF Len(retained.connectors) < initial_len
        THEN Return(update_timestamp(retained, now), Ok)
        ELSE Return(retained, Err("Connector not found"))

\* update_settings taking over the grid fields only
update_settings_grid_only(d, settings_json, now) ==
    LET settings == from_str_DiagramSettings(settings_json) IN
    IF ~settings.ok THEN Return(d, settings)
    ELSE Return(update_timestamp(
                    [d EXCEPT !.settings.grid_enabled = settings.val.grid_enabled,
                              !.settings.snap_to_grid = settings.val.snap_to_grid,
                              !.settings.grid_size = settings.val.grid_size], now),
                Ok)

\* update_settings without its call of update_timestamp
update_settings_no_stamp(d, settings_json, now) ==
    LET settings == from_str_DiagramSettings(settings_json) IN
    IF ~settings.ok THEN Return(d, settings)
    ELSE Return([d EXCEPT !.settings = settings.val], Ok)

update_settings(d, settings_json, now) ==
    LET settings == from_str_DiagramSettings(settings_json) IN
    IF ~settings.ok THEN Return(d, settings)
    ELSE Return(update_timestamp([d EXCEPT !.settings = settings.val], now), Ok)

Abs(n) == IF n < 0 THEN -n ELSE n

\* the quotient rounded with its exact halves going up (floor(q + 1/2))
round_quotient_half_up(x, grid) ==
    LET dividend == IF grid < 0 THEN -x ELSE x
    IN  (2 * dividend + Abs(grid)) \div (2 * Abs(grid))

\* f64::round of the quotient x / grid, grid # 0: the nearest integer, an
\* exact half going away from zero
round_quotient(x, grid) ==
    LET magnitude == (2 * Abs(x) + Abs(grid)) \div (2 * Abs(grid))
    IN  IF (x < 0) # (grid < 0) THEN -magnitude ELSE magnitude

\* (x / grid).round() * grid; a zero grid makes x / grid infinite or NaN,
\* and its product with the zero grid NaN; a quotient that rounds to zero
\* keeps its sign, and the product has the sign of x
snap_coordinate(x, grid) ==
    IF grid = 0 THEN NaN
    ELSE IF x < 0 /\ round_quotient(x, grid) = 0 THEN NegZero
    ELSE Fin(round_quotient(x, grid) * grid)

snap_to_grid(d, x, y) ==
    IF d.settings.snap_to_grid
    THEN LET grid == d.settings.grid_size.n
         IN  <<snap_coordinate(x, grid), snap_coordinate(y, grid)>>
    ELSE <<Fin(x), Fin(y)>>

\* the condition of the loop body of find_shape_at
hit(shape, x, y) ==
    /\ x >= shape.x.n /\ x <= shape.x.n + shape.width.n
    /\ y >= shape.y.n /\ y <= shape.y.n + shape.height.n

\* shapes.iter().rev(), from position i down to the first shape
RECURSIVE find_from(_, _, _, _)
find_from(shapes, i, x, y) ==
    IF i = 0 THEN None
    ELSE IF hit(shapes[i], x, y) THEN Some(shapes[i].id)
    ELSE find_from(shapes, i - 1, x, y)

\* find_shape_at scanning from the first shape on
find_shape_at_forwards(d, x, y) ==
    IF \E i \in 1..Len(d.shapes) : hit(d.shapes[i], x, y)
    THEN Some(d.shapes[CHOOSE i \in 1..Len(d.shapes) :
                           /\ hit(d.shapes[i], x, y)
                           /\ \A k \in 1..(i - 1) : ~hit(d.shapes[k], x, y)].id)
    ELSE None

find_shape_at(d, x, y) == find_from(d.shapes, Len(d.shapes), x, y)

\* #[serde(rename_all = "camelCase")] on ShapeType, serialising
TagOfShapeType(shape_type) ==
    CASE shape_type = "Rectangle" -> "rectangle"
      [] shape_type = "Circle"    -> "circle"
      [] shape_type = "Diamond"   -> "diamond"
      [] shape_type = "Text"      -> "text"

\* Serialize of Shape: the Option is written as the string or as null
Shape_to_json(shape) ==
    Obj([id |-> Str(shape.id),
         type |-> Str(TagOfShapeType(shape.shape_type)),
         x |-> write_f64(shape.x), y |-> write_f64(shape.y),
         width |-> write_f64(shape.width), height |-> write_f64(shape.height),
         rotation |-> write_f64(shape.rotation),
         fill |-> Str(shape.fill), stroke |-> Str(shape.stroke),
         strokeWidth |-> write_f64(shape.stroke_width),
         text |-> IF shape.text.some THEN Str(shape.text.val) ELSE Null])

Connector_to_json(connector) ==
    Obj([id |-> Str(connector.id),
         fromShapeId |-> Str(connector.from_shape_id),
         toShapeId |-> Str(connector.to_shape_id),
         fromAnchor |-> Str(connector.from_anchor),
         toAnchor |-> Str(connector.to_anchor),
         stroke |-> Str(connector.stroke),
         strokeWidth |-> write_f64(connector.stroke_width)])

DiagramSettings_to_json(settings) ==
    Obj([backgroundColor |-> Str(settings.background_color),
         gridEnabled |-> Bool(settings.grid_enabled),
         snapToGrid |-> Bool(settings.snap_to_grid),
         gridSize |-> write_f64(settings.grid_size)])

\* serde_json::to_string(&self.diagram)
to_json(d) ==
    OkVal(Obj([id |-> Str(d.id),
               name |-> Str(d.name),
               shapes |-> Arr([i \in 1..Len(d.shapes) |-> Shape_to_json(d.shapes[i])]),
               connectors |-> Arr([i \in 1..Len(d.connectors) |->
                                      Connector_to_json(d.connectors[i])]),
               settings |-> DiagramSettings_to_json(d.settings),
               createdAt |-> Str(d.created_at),
               updatedAt |-> Str(d.updated_at)]))

HasArr(j, key) == Has(j, key) /\ IsArr(j.o[key])

\* serde_json::from_str::<Diagram>: all seven fields are required, and every
\* element of the two arrays has to parse
from_str_Diagram(j) ==
    LET m == deserialize_struct(j, DiagramFieldNames) IN
    IF /\ m.t = "obj"
       /\ HasStr(m, "id") /\ HasStr(m, "name")
       /\ HasArr(m, "shapes")
       /\ \A i \in 1..Len(Elements(m.o["shapes"])) : from_str_Shape(Elements(m.o["shapes"])[i]).ok
       /\ HasArr(m, "connectors")
       /\ \A i \in 1..Len(Elements(m.o["connectors"])) :
              from_str_Connector(Elements(m.o["connectors"])[i]).ok
       /\ Has(m, "settings") /\ from_str_DiagramSettings(m.o["settings"]).ok
       /\ HasStr(m, "createdAt") /\ HasStr(m, "updatedAt")
    THEN OkVal([id |-> m.o["id"].s,
                name |-> m.o["name"].s,
                shapes |-> [i \in 1..Len(Elements(m.o["shapes"])) |->
                               from_str_Shape(Elements(m.o["shapes"])[i]).val],
                connectors |-> [i \in 1..Len(Elements(m.o["connectors"])) |->
                                   from_str_Connector(Elements(m.o["connectors"])[i]).val],
                settings |-> from_str_DiagramSettings(m.o["settings"]).val,
                created_at |-> m.o["createdAt"].s,
                updated_at |-> m.o["updatedAt"].s])
    ELSE Err("Parse error")

\* from_json builds an engine from the text, or none: the engine the text
\* came from is kept when the parse fails
from_json(d, json) ==
    LET parsed == from_str_Diagram(json) IN
    IF parsed.ok THEN Return(parsed.val, Ok) ELSE Return(d, parsed)

----------------------------------------------------------------------------
(* Inputs of the calls                                                     *)

ShapeFields(id, type, x, y, width, height, rotation, stroke_width) ==
    [id |-> Str(id), type |-> Str(type),
     x |-> Num(x), y |-> Num(y), width |-> Num(width), height |-> Num(height),
     rotation |-> Num(rotation),
     fill |-> Str("#4f46e5"), stroke |-> Str("#3730a3"),
     strokeWidth |-> Num(stroke_width)]

Without(o, key) == [k \in DOMAIN o \ {key} |-> o[k]]

\* a rectangle with no text key
ShapeA == Obj(ShapeFields("a", "rectangle", 0, 0, 10, 10, 0, 1))
\* a rotated text shape overlapping ShapeA, with an unknown key
ShapeB == Obj(ShapeFields("b", "text", 5, 5, 10, 10, 45, 2)
              @@ [text |-> Str("T"), zIndex |-> Num(3)])
ShapeNoWidth == Obj(Without(ShapeA.o, "width"))
ShapeHexagon == Obj([ShapeA.o EXCEPT !["type"] = Str("hexagon")])

\* the fields of an object as the array of their values, in the order of
\* declaration, null for a field the object does not hold
SeqForm(o, fields) ==
    Arr([i \in 1..Len(fields) |->
            IF fields[i] \in DOMAIN o THEN o[fields[i]] ELSE Null])

\* ShapeA as an array of its fields, its type as the object of a variant
ShapeASeq ==
    SeqForm([ShapeA.o EXCEPT !["type"] = Obj([rectangle |-> Null])], ShapeFieldNames)

ValidShapeInputs == {ShapeA, ShapeB, ShapeASeq}
MalformedShapeInputs == {InvalidJson, ShapeNoWidth, ShapeHexagon}
ShapeInputs == ValidShapeInputs \cup MalformedShapeInputs

\* a circle whose x is written with seventeen digits, and whose y with
\* twenty-three digits after the point
ShapeOffGrid ==
    Obj([ShapeFields("c", "circle", 0, 0, 10, 10, 0, 1) EXCEPT
            !["x"] = Dec(FALSE, <<9>>,
                         <<1, 3, 6, 5, 7, 1, 2, 0, 0, 9, 0, 3, 0, 7, 8, 9>>),
            !["y"] = Dec(FALSE, <<0>>,
                         <<0, 0, 0, 0, 1, 2, 3, 4, 5, 6, 7, 8, 9, 0, 1, 2, 3, 4, 5,
                           6, 7, 8, 9>>)])

OffGridShapeInputs == {ShapeOffGrid}

ShapeIds == {"a", "b"}

\* one field only, and a key that is no field of a shape
PatchX == Obj([x |-> Num(5), zIndex |-> Num(9)])
\* every patch field at once
PatchAll ==
    Obj([x |-> Num(5), y |-> Num(6), width |-> Num(7), height |-> Num(8),
         rotation |-> Num(90), fill |-> Str("#ff0000"), stroke |-> Str("#00ff00"),
         strokeWidth |-> Num(3), text |-> Str("U")])
\* recognised keys with values of another type, and keys that are no patch field
PatchWrongTypes ==
    Obj([x |-> Str("wide"), fill |-> Num(1), text |-> Null,
         id |-> Str("b"), type |-> Str("circle")])

\* well-formed patches that hold none of the nine fields with a usable value:
\* the empty object, unknown keys only, and a JSON value that is no object
PatchEmpty == Obj([key \in {} |-> Null])
PatchUnknownOnly == Obj([zIndex |-> Num(9), id |-> Str("b")])
PatchNotAnObject == Num(7)

\* one unknown key over arrays nested as deep as the parser still reads, and
\* one level deeper
PatchDeepest == Obj([zIndex |-> Nest(RecursionLimit - 2, Null)])
PatchTooDeep == Obj([zIndex |-> Nest(RecursionLimit - 1, Null)])

NoFieldPatchInputs ==
    {PatchEmpty, PatchUnknownOnly, PatchNotAnObject, PatchDeepest, PatchTooDeep}

PatchInputs == {PatchX, PatchAll, PatchWrongTypes, InvalidJson}

ConnectorFields(id, from, to) ==
    [id |-> Str(id), fromShapeId |-> Str(from), toShapeId |-> Str(to),
     fromAnchor |-> Str("right"), toAnchor |-> Str("left"),
     stroke |-> Str("#000000"), strokeWidth |-> Num(1)]

ConnectorAB == Obj(ConnectorFields("c1", "a", "b"))
\* a connector from a shape to itself
ConnectorBB == Obj(ConnectorFields("c2", "b", "b"))
ConnectorNoTo == Obj(Without(ConnectorAB.o, "toShapeId"))

\* ConnectorAB as an array of its fields
ConnectorABSeq == SeqForm(ConnectorAB.o, ConnectorFieldNames)

ValidConnectorInputs == {ConnectorAB, ConnectorBB, ConnectorABSeq}
MalformedConnectorInputs == {InvalidJson, ConnectorNoTo}
ConnectorInputs == ValidConnectorInputs \cup MalformedConnectorInputs

ConnectorIds == {"c1", "c2"}

SettingsFields(background, grid_enabled, snap, grid_size) ==
    [backgroundColor |-> Str(background), gridEnabled |-> Bool(grid_enabled),
     snapToGrid |-> Bool(snap), gridSize |-> Num(grid_size)]

SettingsNoSnap == Obj(SettingsFields("#000000", FALSE, FALSE, 10))
SettingsZeroGrid == Obj(SettingsFields("#ffffff", TRUE, TRUE, 0))
SettingsNegativeGrid == Obj(SettingsFields("#ffffff", FALSE, TRUE, -20))
SettingsNoGridSize == Obj(Without(SettingsNoSnap.o, "gridSize"))

\* SettingsNoSnap as an array of its fields
SettingsNoSnapSeq == SeqForm(SettingsNoSnap.o, DiagramSettingsFieldNames)

ValidSettingsInputs ==
    {SettingsNoSnap, SettingsZeroGrid, SettingsNegativeGrid, SettingsNoSnapSeq}
MalformedSettingsInputs == {InvalidJson, SettingsNoGridSize}
SettingsInputs == ValidSettingsInputs \cup MalformedSettingsInputs

\* The texts handed to fromJson: what toJson has written for the diagram,
\* the same as an array of its fields, that text with its settings cut out,
\* and a text that is no JSON.
DiagramInputs(d) ==
    {to_json(d).val,
     SeqForm(to_json(d).val.o, DiagramFieldNames),
     Obj(Without(to_json(d).val.o, "settings")),
     InvalidJson}

SnapPoints == {<<25, 33>>, <<-30, 10>>, <<50, -7>>}
HitPoints == {<<0, 0>>, <<10, 10>>, <<15, 15>>, <<16, 5>>}

\* The host clock does not go backwards; between two calls it stands still
\* (a clock of coarse resolution) or advances.
ClockStart == 500
ClockSteps == {0, 600}
ClockEnd == ClockStart + MaxTicks * 600

----------------------------------------------------------------------------
(* The state machine                                                       *)

Call(op, arg, res) == [op |-> op, arg |-> arg, res |-> res]

Init ==
    /\ clock = ClockStart
    /\ diagram = new("test-id", "Test Diagram", ClockStart)
    /\ last = Call("new", <<"test-id", "Test Diagram">>, Ok)

\* The time that passes before a call: the values the clock may show when
\* the call runs.
Nows == {now \in {clock + d : d \in ClockSteps} : now <= ClockEnd}

\* A call leaves the diagram and the result its method returns.
Does(op, arg, r, now) ==
    /\ diagram' = r.diagram
    /\ last' = Call(op, arg, r.res)
    /\ clock' = now

AddShape ==
    \E shape_json \in ShapeInputs, now \in Nows :
        /\ Len(diagram.shapes) < MaxShapes
        /\ Does("addShape", shape_json, add_shape(diagram, shape_json, now), now)

UpdateShape ==
    \E shape_id \in ShapeIds, updates_json \in PatchInputs, now \in Nows :
        Does("updateShape", <<shape_id, updates_json>>,
             update_shape(diagram, shape_id, updates_json, now), now)

DeleteShape ==
    \E shape_id \in ShapeIds, now \in Nows :
        Does("deleteShape", shape_id, delete_shape(diagram, shape_id, now), now)

AddConnector ==
    \E connector_json \in ConnectorInputs, now \in Nows :
        /\ Len(diagram.connectors) < MaxConnectors
        /\ Does("addConnector", connector_json,
                add_connector(diagram, connector_json, now), now)

DeleteConnector ==
    \E connector_id \in ConnectorIds, now \in Nows :
        Does("deleteConnector", connector_id,
             delete_connector(diagram, connector_id, now), now)

UpdateSettings ==
    \E settings_json \in SettingsInputs, now \in Nows :
        Does("updateSettings", settings_json,
             update_settings(diagram, settings_json, now), now)

\* The two queries take &self and never read the clock: they return a value
\* and leave the diagram.
SnapToGrid ==
    \E p \in SnapPoints :
        Does("snapToGrid", p,
             Return(diagram, OkVal(snap_to_grid(diagram, p[1], p[2]))), clock)

FindShapeAt ==
    \E p \in HitPoints :
        Does("findShapeAt", p,
             Return(diagram, OkVal(find_shape_at(diagram, p[1], p[2]))), clock)

ToJson ==
    Does("toJson", <<>>, Return(diagram, to_json(diagram)), clock)

\* A session saved and loaded again: the engine is rebuilt from a text.
FromJson ==
    \E json \in DiagramInputs(diagram) :
        Does("fromJson", json, from_json(diagram, json), clock)

Next ==
    \/ AddShape
    \/ UpdateShape
    \/ DeleteShape
    \/ AddConnector
    \/ DeleteConnector
    \/ UpdateSettings
    \/ SnapToGrid
    \/ FindShapeAt

Spec == Init /\ [][Next]_vars

\* Stores created with one id and name or another, at one time or another,
\* and then used.
DiagramIds == {"test-id", ""}
DiagramNames == {"Test Diagram", "Test"}
CreationTimes == {ClockStart, ClockEnd}

InitCreate ==
    \E id \in DiagramIds, name \in DiagramNames, now \in CreationTimes :
        /\ clock = now
        /\ diagram = new(id, name, now)
        /\ last = Call("new", <<id, name>>, Ok)

NextCreate ==
    \/ AddShape
    \/ UpdateSettings
    \/ SnapToGrid
    \/ FindShapeAt

SpecCreate == InitCreate /\ [][NextCreate]_vars

\* A caller that adds a connector only between shapes the store holds; its
\* other calls are free, addShape with an id in use included.
AddConnectorBetweenShapes ==
    \E connector_json \in ValidConnectorInputs, now \in Nows :
        /\ Len(diagram.connectors) < MaxConnectors
        /\ \E i \in 1..Len(diagram.shapes) :
               diagram.shapes[i].id = from_str_Connector(connector_json).val.from_shape_id
        /\ \E i \in 1..Len(diagram.shapes) :
               diagram.shapes[i].id = from_str_Connector(connector_json).val.to_shape_id
        /\ Does("addConnector", connector_json,
                add_connector(diagram, connector_json, now), now)

NextCallerChecks ==
    \/ AddShape
    \/ UpdateShape
    \/ DeleteShape
    \/ AddConnectorBetweenShapes
    \/ DeleteConnector
    \/ UpdateSettings

SpecCallerChecks == Init /\ [][NextCallerChecks]_vars

\* Shapes patched with patches that name no field, among other patches.
UpdateShapeNoField ==
    \E shape_id \in ShapeIds, updates_json \in NoFieldPatchInputs, now \in Nows :
        Does("updateShape", <<shape_id, updates_json>>,
             update_shape(diagram, shape_id, updates_json, now), now)

NextNoFieldPatches ==
    \/ AddShape
    \/ UpdateShape
    \/ UpdateShapeNoField

SpecNoFieldPatches == Init /\ [][NextNoFieldPatches]_vars

\* A shape placed at a position that is no whole number.
AddShapeOffGrid ==
    \E shape_json \in OffGridShapeInputs, now \in Nows :
        /\ Len(diagram.shapes) < MaxShapes
        /\ Does("addShape", shape_json, add_shape(diagram, shape_json, now), now)

\* Sessions that build a diagram, save it and load it again.
NextPersist ==
    \/ AddShape
    \/ AddShapeOffGrid
    \/ AddConnector
    \/ ToJson
    \/ FromJson

SpecPersist == Init /\ [][NextPersist]_vars

----------------------------------------------------------------------------
(* Vocabulary of the properties                                            *)

Indices(seq) == 1..Len(seq)
IdsOf(seq) == {seq[i].id : i \in Indices(seq)}

Called(op) == last'.op = op
Succeeded(op) == last'.op = op /\ last'.res.ok
Failed(op) == last'.op = op /\ ~last'.res.ok

\* the value an input gives for a field of a struct: under the key in an
\* object, at the position of the field in an array
FieldIn(json, fields, key) ==
    IF IsArr(json)
    THEN Elements(json)[CHOOSE i \in 1..Len(fields) : fields[i] = key]
    ELSE json.o[key]

\* the input gives a value for the field
HoldsField(json, key) == IsArr(json) \/ key \in DOMAIN json.o

\* the tag of the variant in the value an input gives for the type of a shape
TagIn(v) ==
    IF v.t = "str" THEN v.s ELSE CHOOSE tag \in ShapeTypeTags : DOMAIN v.o = {tag}

MutatingOps ==
    {"addShape", "updateShape", "deleteShape",
     "addConnector", "deleteConnector", "updateSettings"}

\* every connector of d starts and ends at a shape of d
Referential(d) ==
    \A i \in Indices(d.connectors) :
        /\ d.connectors[i].from_shape_id \in IdsOf(d.shapes)
        /\ d.connectors[i].to_shape_id \in IdsOf(d.shapes)

\* no id occurs twice among the shapes, nor among the connectors, of d
UniqueIds(d) ==
    /\ \A i, k \in Indices(d.shapes) :
           d.shapes[i].id = d.shapes[k].id => i = k
    /\ \A i, k \in Indices(d.connectors) :
           d.connectors[i].id = d.connectors[k].id => i = k

----------------------------------------------------------------------------
(* C1                                                                      *)

\* C1 as stated: in every reachable state every connector has a fromShapeId
\* and a toShapeId that are ids of shapes in the shape list.
C1_AlwaysReferential == Referential(diagram)

\* the call of this step is an addConnector that appends a connector with an
\* end that is the id of no shape
AddsDangling ==
    /\ Succeeded("addConnector")
    /\ \/ FieldIn(last'.arg, ConnectorFieldNames, "fromShapeId").s
              \notin IdsOf(diagram.shapes)
       \/ FieldIn(last'.arg, ConnectorFieldNames, "toShapeId").s
              \notin IdsOf(diagram.shapes)

\* C1, amended: the store is created with every connector referencing
\* existing shapes, and every call keeps it so except an addConnector whose
\* connector names a fromShapeId or a toShapeId that is the id of no shape:
\* addConnector checks neither end, succeeds and leaves that connector
\* dangling.
C1_ReferentialKept ==
    /\ Referential(diagram)
    /\ [][/\ (Referential(diagram) /\ ~AddsDangling) => Referential(diagram')
          /\ AddsDangling => ~Referential(diagram')]_vars

\* a deleteShape has succeeded and left a connector, at shapes that exist
C1_Witness ==
    /\ last.op = "deleteShape" /\ last.res.ok
    /\ diagram.connectors # <<>>
    /\ Referential(diagram)

----------------------------------------------------------------------------
(* C2                                                                      *)

\* C2: a successful deleteShape(id) leaves, in that one step, no shape of
\* that id and no connector whose fromShapeId or toShapeId is that id.
C2_DeleteShapeCascades ==
    [][Succeeded("deleteShape") =>
          /\ last'.arg \notin IdsOf(diagram'.shapes)
          /\ \A i \in Indices(diagram'.connectors) :
                /\ diagram'.connectors[i].from_shape_id # last'.arg
                /\ diagram'.connectors[i].to_shape_id # last'.arg]_vars

\* a deleteShape has succeeded and left a shape and a connector behind
C2_Witness ==
    /\ last.op = "deleteShape" /\ last.res.ok
    /\ diagram.shapes # <<>>
    /\ diagram.connectors # <<>>

----------------------------------------------------------------------------
(* C3                                                                      *)

\* C3 as stated: deleteShape(id), called when no shape has that id, fails
\* with "Shape not found", does not run the connector cascade and leaves
\* the shapes, the connectors, the settings and updatedAt as they were.
C3_AbsentDeleteShapeChangesNothing ==
    [][(Called("deleteShape") /\ last'.arg \notin IdsOf(diagram.shapes)) =>
          /\ last'.res = Err("Shape not found")
          /\ diagram'.shapes = diagram.shapes
          /\ diagram'.connectors = diagram.connectors
          /\ diagram'.settings = diagram.settings
          /\ diagram'.updated_at = diagram.updated_at]_vars

----------------------------------------------------------------------------
(* C4                                                                      *)

\* The inputs that are not of the serialized schema (an object of the named
\* fields, the type of a shape one of the four strings): the malformed ones,
\* and an array of the field values.
OffSchemaShapeInputs == MalformedShapeInputs \cup {ShapeASeq}
OffSchemaConnectorInputs == MalformedConnectorInputs \cup {ConnectorABSeq}
OffSchemaSettingsInputs == MalformedSettingsInputs \cup {SettingsNoSnapSeq}

\* the call of this step names an id the store does not hold, or hands over
\* an input that does not conform to the schema of what it adds or replaces
RejectedInput ==
    \/ Called("updateShape") /\ last'.arg[1] \notin IdsOf(diagram.shapes)
    \/ Called("deleteConnector") /\ last'.arg \notin IdsOf(diagram.connectors)
    \/ Called("addShape") /\ last'.arg \in OffSchemaShapeInputs
    \/ Called("addConnector") /\ last'.arg \in OffSchemaConnectorInputs
    \/ Called("updateSettings") /\ last'.arg \in OffSchemaSettingsInputs

\* C4 as stated: updateShape or deleteConnector with an id that is absent,
\* and addShape, addConnector or updateSettings with an input that does not
\* conform to the schema, fail and leave the shapes, the connectors, the
\* settings and updatedAt (the whole diagram) unchanged.
C4_FailureChangesNothing ==
    [][RejectedInput => (~last'.res.ok /\ diagram' = diagram)]_vars

----------------------------------------------------------------------------
(* C5                                                                      *)

\* C5 as stated: in every reachable state no two shapes have the same id and
\* no two connectors have the same id.
C5_AlwaysUniqueIds == UniqueIds(diagram)

\* the call of this step is an addShape or an addConnector that succeeds
\* with an id the list it appends to already holds
AddsDuplicate ==
    \/ /\ Succeeded("addShape")
       /\ FieldIn(last'.arg, ShapeFieldNames, "id").s \in IdsOf(diagram.shapes)
    \/ /\ Succeeded("addConnector")
       /\ FieldIn(last'.arg, ConnectorFieldNames, "id").s \in IdsOf(diagram.connectors)

\* C5, amended: the store is created with unique ids, and every call keeps
\* the shape ids and the connector ids unique except an addShape or an
\* addConnector whose input carries an id already in its list: neither
\* checks the id, both succeed and leave the id twice.
C5_UniqueIdsKept ==
    /\ UniqueIds(diagram)
    /\ [][/\ (UniqueIds(diagram) /\ ~AddsDuplicate) => UniqueIds(diagram')
          /\ AddsDuplicate => ~UniqueIds(diagram')]_vars

\* an updateShape has succeeded on a store of two shapes and two connectors,
\* all of different ids
C5_Witness ==
    /\ last.op = "updateShape" /\ last.res.ok
    /\ Len(diagram.shapes) = 2
    /\ Len(diagram.connectors) = 2
    /\ UniqueIds(diagram)

----------------------------------------------------------------------------
(* C6                                                                      *)

\* C6: every successful mutating call sets updatedAt to the ISO text of the
\* clock value it read; so, with a host clock that never goes backwards
\* (the clock of this model), updatedAt never decreases, and a successful
\* mutating call made after the clock advanced leaves updatedAt strictly
\* later than before.
C6_TimestampFollowsClock ==
    [][/\ (last'.op \in MutatingOps /\ last'.res.ok) =>
              /\ diagram'.updated_at = to_iso_string(clock')
              /\ clock' > clock =>
                     IsoLt(diagram.updated_at, diagram'.updated_at)
       /\ IsoLeq(diagram.updated_at, diagram'.updated_at)]_vars

\* an updateSettings has succeeded after the clock advanced past the
\* creation time
C6_Witness ==
    /\ last.op = "updateSettings" /\ last.res.ok
    /\ IsoLt(diagram.created_at, diagram.updated_at)
    /\ diagram.updated_at = to_iso_string(clock)

----------------------------------------------------------------------------
(* C7                                                                      *)

NumberKeys == {"x", "y", "width", "height", "rotation", "strokeWidth"}
StringKeys == {"fill", "stroke", "text"}
PatchKeys == NumberKeys \cup StringKeys

\* the field of a Shape that a key of the JSON form names
FieldOf(key) == IF key = "strokeWidth" THEN "stroke_width" ELSE key

\* the JSON value of a patch field of a shape
FieldJson(shape, key) ==
    IF key \in NumberKeys THEN Num(shape[FieldOf(key)].n)
    ELSE IF key = "text"
         THEN IF shape.text.some THEN Str(shape.text.val) ELSE Null
         ELSE Str(shape[key])

\* the patch holds the key with a value of the JSON type of its field
Usable(patch, key) ==
    IF key \in NumberKeys THEN HasF64(patch, key) ELSE HasStr(patch, key)

\* the position of the shape an updateShape(id, ..) works on
Target(shapes, id) ==
    CHOOSE i \in Indices(shapes) :
        shapes[i].id = id /\ \A k \in 1..(i - 1) : shapes[k].id # id

\* what a successful updateShape leaves alone, whatever the patch
UpdateShapeFrame(i) ==
    /\ Len(diagram'.shapes) = Len(diagram.shapes)
    /\ \A k \in Indices(diagram.shapes) \ {i} :
           diagram'.shapes[k] = diagram.shapes[k]
    /\ diagram'.shapes[i].id = diagram.shapes[i].id
    /\ diagram'.shapes[i].shape_type = diagram.shapes[i].shape_type
    /\ diagram'.connectors = diagram.connectors
    /\ diagram'.settings = diagram.settings

\* C7 as stated: a successful updateShape(id, patch) overwrites exactly the
\* fields among x, y, width, height, rotation, fill, stroke, strokeWidth and
\* text that are present in the patch, and leaves the shape's other fields,
\* the other shapes, the list's length and order, the connectors and the
\* settings unchanged.
C7_PresentFieldsOverwritten ==
    [][Succeeded("updateShape") =>
          LET patch == last'.arg[2]
              i == Target(diagram.shapes, last'.arg[1])
          IN  /\ UpdateShapeFrame(i)
              /\ \A key \in PatchKeys :
                    IF Has(patch, key)
                    THEN FieldJson(diagram'.shapes[i], key) = patch.o[key]
                    ELSE diagram'.shapes[i][FieldOf(key)]
                             = diagram.shapes[i][FieldOf(key)]]_vars

\* C7, amended: a successful updateShape(id, patch) overwrites exactly the
\* fields among the nine that the patch holds with a value of the field's
\* JSON type (a number for x, y, width, height, rotation and strokeWidth, a
\* string for fill, stroke and text); a field the patch holds with a value
\* of another type (a null text included) is left as it was, like an absent
\* one; the shape's id and kind, the other shapes, the list's length and
\* order, the connectors and the settings are unchanged.
C7_UsableFieldsOverwritten ==
    [][Succeeded("updateShape") =>
          LET patch == last'.arg[2]
              i == Target(diagram.shapes, last'.arg[1])
          IN  /\ UpdateShapeFrame(i)
              /\ \A key \in PatchKeys :
                    IF Usable(patch, key)
                    THEN FieldJson(diagram'.shapes[i], key) = patch.o[key]
                    ELSE diagram'.shapes[i][FieldOf(key)]
                             = diagram.shapes[i][FieldOf(key)]]_vars

\* shape a, patched before with every field, has just been patched with
\* values of the wrong types, and keeps the fields of the first patch
C7_Witness ==
    /\ last.op = "updateShape" /\ last.res.ok
    /\ last.arg = <<"a", PatchWrongTypes>>
    /\ Len(diagram.shapes) = 2
    /\ diagram.shapes[1].id = "a"
    /\ diagram.shapes[1].x = Fin(5)
    /\ diagram.shapes[1].fill = "#ff0000"
    /\ diagram.shapes[1].text = Some("U")
    /\ diagram.shapes[1].shape_type = "Rectangle"

----------------------------------------------------------------------------
(* C8                                                                      *)

\* the shape is the one the input describes
IsShapeOf(shape, json) ==
    /\ \A key \in PatchKeys \ {"text"} :
           FieldJson(shape, key) = FieldIn(json, ShapeFieldNames, key)
    /\ shape.id = FieldIn(json, ShapeFieldNames, "id").s
    /\ shape.shape_type = ShapeTypeOfTag(TagIn(FieldIn(json, ShapeFieldNames, "type")))
    /\ shape.text = IF /\ HoldsField(json, "text")
                       /\ FieldIn(json, ShapeFieldNames, "text").t = "str"
                    THEN Some(FieldIn(json, ShapeFieldNames, "text").s)
                    ELSE None

\* C8: a new store holds no shape, and a successful addShape(s) appends s as
\* the last shape and leaves the shapes stored before as they were, in their
\* order; hence addShape(s1), ..., addShape(sn) on a new store leave exactly
\* [s1, ..., sn].
C8_AddShapeAppends ==
    /\ diagram.shapes = <<>>
    /\ [][Succeeded("addShape") =>
             /\ Len(diagram'.shapes) = Len(diagram.shapes) + 1
             /\ \A k \in Indices(diagram.shapes) :
                    diagram'.shapes[k] = diagram.shapes[k]
             /\ IsShapeOf(diagram'.shapes[Len(diagram'.shapes)], last'.arg)]_vars

\* ShapeB has just been added on top of ShapeA
C8_Witness ==
    /\ last.op = "addShape" /\ last.res.ok /\ last.arg = ShapeB
    /\ Len(diagram.shapes) = 2
    /\ diagram.shapes[1].id = "a"
    /\ diagram.shapes[2].id = "b"

----------------------------------------------------------------------------
(* C9                                                                      *)

\* the point is in the box [x, x + width] x [y, y + height] of the shape,
\* its four edges included
InBox(shape, point) ==
    /\ point[1] \in shape.x.n .. (shape.x.n + shape.width.n)
    /\ point[2] \in shape.y.n .. (shape.y.n + shape.height.n)

Rotations == {0, 45, 90}

\* the diagram with every shape turned to the same rotation
Turned(d, rotation) ==
    [d EXCEPT !.shapes =
        [i \in Indices(d.shapes) |-> [d.shapes[i] EXCEPT !.rotation = Fin(rotation)]]]

\* C9: findShapeAt(x, y) returns the id of the latest shape, in insertion
\* order, whose axis-aligned box contains the point, edges included; it
\* returns no match exactly when no box contains the point; and it returns
\* the same whatever the rotations of the shapes.
C9_FindShapeAtTopmost ==
    last.op = "findShapeAt" =>
        LET hits == {i \in Indices(diagram.shapes) :
                        InBox(diagram.shapes[i], last.arg)}
            top == CHOOSE i \in hits : \A k \in hits : k <= i
        IN  /\ last.res.val = IF hits = {} THEN None
                              ELSE Some(diagram.shapes[top].id)
            /\ \A rotation \in Rotations :
                   find_shape_at(Turned(diagram, rotation),
                                 last.arg[1], last.arg[2]) = last.res.val

\* a point in the boxes of both a (below) and b (on top, rotated) gave b
C9_Witness ==
    /\ last.op = "findShapeAt" /\ last.arg = <<10, 10>>
    /\ last.res.val = Some("b")
    /\ Len(diagram.shapes) = 2
    /\ diagram.shapes[1].id = "a" /\ InBox(diagram.shapes[1], <<10, 10>>)
    /\ diagram.shapes[2].id = "b" /\ diagram.shapes[2].rotation = Fin(45)

----------------------------------------------------------------------------
(* C10                                                                     *)

Quotients == -8 .. 8

\* snapped is round(x / grid) * grid, with the exact halves away from zero:
\* the multiple of grid nearest to x, the one farther from zero of two at
\* the same distance; with a zero grid the product is IEEE's NaN
IsSnapOf(snapped, x, grid) ==
    IF grid = 0 THEN snapped = NaN
    ELSE /\ snapped # NaN
         /\ \E q \in Quotients : snapped.n = q * grid
         /\ 2 * Abs(x - snapped.n) <= Abs(grid)
         /\ 2 * Abs(x - snapped.n) = Abs(grid) => Abs(snapped.n) > Abs(x)

\* C10: with settings.snapToGrid enabled snapToGrid(x, y) returns
\* (round(x/gridSize)*gridSize, round(y/gridSize)*gridSize), exact halves
\* rounded away from zero, so that (25, 33) gives (20, 40) on a grid of 20;
\* with it disabled it returns (x, y); and it leaves the diagram, updatedAt
\* included, as it was.
C10_SnapToGrid ==
    /\ [](last.op = "snapToGrid" =>
            /\ IF diagram.settings.snap_to_grid
               THEN /\ IsSnapOf(last.res.val[1], last.arg[1],
                                diagram.settings.grid_size.n)
                    /\ IsSnapOf(last.res.val[2], last.arg[2],
                                diagram.settings.grid_size.n)
               ELSE last.res.val = <<Fin(last.arg[1]), Fin(last.arg[2])>>
            /\ (/\ last.arg = <<25, 33>>
                /\ diagram.settings.snap_to_grid
                /\ diagram.settings.grid_size = Fin(20))
                   => last.res.val = <<Fin(20), Fin(40)>>)
    /\ [][Called("snapToGrid") => diagram' = diagram]_vars

\* (-30, 10), both exact halves of a grid of 20, has been snapped to
\* (-40, 20) on a store that holds a shape
C10_Witness ==
    /\ last.op = "snapToGrid" /\ last.arg = <<-30, 10>>
    /\ diagram.settings.snap_to_grid /\ diagram.settings.grid_size = Fin(20)
    /\ last.res.val = <<Fin(-40), Fin(20)>>
    /\ diagram.shapes # <<>>

---------------------------------------------------------------------------------------------------------------------------------------------------
(* C11                                                                     *)

\* C11 as stated: for every diagram D the store can reach,
\* load(serialize(D)) succeeds and yields a diagram equal to D in every
\* field: id, name, the shapes in their order with all their fields (an
\* absent text included), the connectors, the settings, createdAt and
\* updatedAt (no refresh).
C11_RoundTrip ==
    [][(Called("fromJson") /\ last'.arg = to_json(diagram).val) =>
          /\ last'.res.ok
          /\ diagram'.id = diagram.id
          /\ diagram'.name = diagram.name
          /\ diagram'.shapes = diagram.shapes
          /\ diagram'.connectors = diagram.connectors
          /\ diagram'.settings = diagram.settings
          /\ diagram'.created_at = diagram.created_at
          /\ diagram'.updated_at = diagram.updated_at]_vars

-----
(* C12                                                                     *)

\* C12: createdAt is the time of the creation, and no call of the store,
\* successful or failing, changes createdAt, the diagram's id or its name.
C12_CreationFieldsKept ==
    /\ diagram.created_at = to_iso_string(clock)
    /\ [][/\ diagram'.created_at = diagram.created_at
          /\ diagram'.id = diagram.id
          /\ diagram'.name = diagram.name]_vars

\* after successful calls at a later time, a deleteShape has failed; the
\* store still shows the creation time
C12_Witness ==
    /\ last.op = "deleteShape" /\ ~last.res.ok
    /\ IsoLt(diagram.created_at, diagram.updated_at)
    /\ diagram.created_at = to_iso_string(ClockStart)
    /\ diagram.shapes # <<>>

----------------------------------------------------------------------------
(* C13                                                                     *)

\* C13: create(id, name) does not fail and yields a store of that id and
\* name, with no shape, no connector, the default settings (backgroundColor
\* #ffffff, gridEnabled true, snapToGrid true, gridSize 20) and createdAt
\* equal to updatedAt (the time of the creation).
C13_CreateYieldsEmptyStore ==
    last.op = "new" =>
        /\ last.res.ok
        /\ diagram.id = last.arg[1]
        /\ diagram.name = last.arg[2]
        /\ diagram.shapes = <<>>
        /\ diagram.connectors = <<>>
        /\ diagram.settings = [background_color |-> "#ffffff",
                               grid_enabled |-> TRUE,
                               snap_to_grid |-> TRUE,
                               grid_size |-> Fin(20)]
        /\ diagram.created_at = diagram.updated_at
        /\ diagram.created_at = to_iso_string(clock)

\* a store has just been created with the empty id and the name "Test"
C13_Witness ==
    /\ last.op = "new" /\ last.arg = <<"", "Test">>
    /\ diagram.id = "" /\ diagram.name = "Test"
    /\ clock = ClockEnd

----------------------------------------------------------------------------
(* C14                                                                     *)

\* C14: a successful updateSettings(s) replaces the settings as a whole:
\* afterwards backgroundColor, gridEnabled, snapToGrid and gridSize are
\* those of s, whatever the settings were, and the shapes and the connectors
\* are unchanged.
C14_SettingsReplaced ==
    [][Succeeded("updateSettings") =>
          /\ diagram'.settings.background_color
                 = FieldIn(last'.arg, DiagramSettingsFieldNames, "backgroundColor").s
          /\ diagram'.settings.grid_enabled
                 = FieldIn(last'.arg, DiagramSettingsFieldNames, "gridEnabled").b
          /\ diagram'.settings.snap_to_grid
                 = FieldIn(last'.arg, DiagramSettingsFieldNames, "snapToGrid").b
          /\ diagram'.settings.grid_size
                 = Fin(FieldIn(last'.arg, DiagramSettingsFieldNames, "gridSize").n)
          /\ DOMAIN diagram'.settings = DOMAIN DiagramSettings_default
          /\ diagram'.shapes = diagram.shapes
          /\ diagram'.connectors = diagram.connectors]_vars

\* the settings without snapping have just replaced others, on a store that
\* holds a shape and a connector
C14_Witness ==
    /\ last.op = "updateSettings" /\ last.res.ok /\ last.arg = SettingsNoSnap
    /\ diagram.settings = [background_color |-> "#000000",
                           grid_enabled |-> FALSE,
                           snap_to_grid |-> FALSE,
                           grid_size |-> Fin(10)]
    /\ diagram.shapes # <<>>
    /\ diagram.connectors # <<>>

----------------------------------------------------------------------------
(* C15                                                                     *)

\* the elements of seq whose id is not the given one, in their order
OthersOf(seq, id) == LET other(e) == e.id # id IN SelectSeq(seq, other)

\* C15: deleteConnector(id) succeeds exactly when a connector of the store
\* has that id; it then leaves no connector of that id, keeps every other
\* connector unchanged and in order, and leaves the shapes and the settings
\* as they were; otherwise it fails with "Connector not found".
C15_DeleteConnector ==
    [][Called("deleteConnector") =>
          /\ last'.res.ok <=> last'.arg \in IdsOf(diagram.connectors)
          /\ last'.res.ok =>
                /\ last'.arg \notin IdsOf(diagram'.connectors)
                /\ diagram'.connectors = OthersOf(diagram.connectors, last'.arg)
                /\ diagram'.shapes = diagram.shapes
                /\ diagram'.settings = diagram.settings
          /\ ~last'.res.ok => last'.res = Err("Connector not found")]_vars

\* deleteConnector("c1") has succeeded and left connector c2, on a store
\* that holds a shape
C15_Witness ==
    /\ last.op = "deleteConnector" /\ last.arg = "c1" /\ last.res.ok
    /\ Len(diagram.connectors) = 1
    /\ diagram.connectors[1].id = "c2"
    /\ diagram.shapes # <<>>

----------------------------------------------------------------------------
(* C16                                                                     *)

\* C16 as stated: in every reachable state settings.gridSize is strictly
\* positive (updateSettings refuses a gridSize that is zero or negative), so
\* that snapToGrid never divides by a grid size that is not positive.
C16_GridSizePositive == diagram.settings.grid_size.n > 0

----------------------------------------------------------------------------
(* C17                                                                     *)

\* C17: when every addConnector is called with a fromShapeId and a toShapeId
\* that are ids of shapes then in the store, every connector of every
\* reachable state has a shape at both ends, whatever the other calls are,
\* addShape with an id in use among them.
C17_NoDanglingWhenCallerChecks ==
    \A i \in Indices(diagram.connectors) :
        /\ \E k \in Indices(diagram.shapes) :
               diagram.shapes[k].id = diagram.connectors[i].from_shape_id
        /\ \E k \in Indices(diagram.shapes) :
               diagram.shapes[k].id = diagram.connectors[i].to_shape_id

\* two shapes of id b and the connector from b to b, after a deleteShape
\* that failed
C17_Witness ==
    /\ Len(diagram.shapes) = 2
    /\ diagram.shapes[1].id = "b" /\ diagram.shapes[2].id = "b"
    /\ diagram.connectors # <<>>
    /\ last.op = "deleteShape" /\ ~last.res.ok

----------------------------------------------------------------------------
(* C18                                                                     *)

\* the connectors of seq that touch the shape id at neither end, in order
DetachedFrom(seq, id) ==
    LET detached(c) == c.from_shape_id # id /\ c.to_shape_id # id
    IN  SelectSeq(seq, detached)

\* C18: a successful deleteShape(id) keeps every shape of another id, and
\* every connector with another id at both ends, with their fields and in
\* their order, and keeps the settings: it removes nothing but the shapes of
\* that id and the connectors attached to it.
C18_DeleteShapeKeepsTheRest ==
    [][Succeeded("deleteShape") =>
          /\ diagram'.shapes = OthersOf(diagram.shapes, last'.arg)
          /\ diagram'.connectors = DetachedFrom(diagram.connectors, last'.arg)
          /\ diagram'.settings = diagram.settings]_vars

\* deleteShape("a") has succeeded and kept the patched shape b and the
\* connector from b to b
C18_Witness ==
    /\ last.op = "deleteShape" /\ last.arg = "a" /\ last.res.ok
    /\ Len(diagram.shapes) = 1
    /\ diagram.shapes[1].id = "b" /\ diagram.shapes[1].x = Fin(5)
    /\ Len(diagram.connectors) = 1
    /\ diagram.connectors[1].id = "c2"

----------------------------------------------------------------------------
(* C19                                                                     *)

\* the positions of the shapes of that id
PositionsOf(shapes, id) == {i \in Indices(shapes) : shapes[i].id = id}

\* C19: when several shapes have the same id, updateShape(id, patch) writes
\* to the first of them in insertion order and leaves the others as they
\* were, and one deleteShape(id) removes them all.
C19_DuplicateIds ==
    [][/\ (/\ Succeeded("updateShape")
           /\ Cardinality(PositionsOf(diagram.shapes, last'.arg[1])) > 1) =>
                LET first == Target(diagram.shapes, last'.arg[1])
                IN  /\ \A key \in PatchKeys :
                           Usable(last'.arg[2], key) =>
                               FieldJson(diagram'.shapes[first], key)
                                   = last'.arg[2].o[key]
                    /\ Len(diagram'.shapes) = Len(diagram.shapes)
                    /\ \A k \in Indices(diagram.shapes) \ {first} :
                           diagram'.shapes[k] = diagram.shapes[k]
       /\ (/\ Called("deleteShape")
           /\ Cardinality(PositionsOf(diagram.shapes, last'.arg)) > 1) =>
                /\ last'.res.ok
                /\ PositionsOf(diagram'.shapes, last'.arg) = {}
                /\ Len(diagram'.shapes) = Len(diagram.shapes)
                       - Cardinality(PositionsOf(diagram.shapes, last'.arg))]_vars

\* of two shapes of id a, the first has been patched and the second not
C19_Witness ==
    /\ last.op = "updateShape" /\ last.arg = <<"a", PatchX>> /\ last.res.ok
    /\ Len(diagram.shapes) = 2
    /\ diagram.shapes[1].id = "a" /\ diagram.shapes[1].x = Fin(5)
    /\ diagram.shapes[2].id = "a" /\ diagram.shapes[2].x = Fin(0)

----------------------------------------------------------------------------
(* C20                                                                     *)

\* the patch is JSON and holds none of the nine fields with a usable value
NamesNoField(patch) ==
    patch # InvalidJson /\ \A key \in PatchKeys : ~Usable(patch, key)

\* C20 as stated: updateShape(id, patch) on the id of a stored shape, with
\* a well-formed patch that holds none of the nine fields (an empty patch,
\* unknown keys only, or known keys with values of the wrong type),
\* succeeds, changes no shape and still sets updatedAt to the time of the
\* call.
C20_NoFieldPatchStillStamps ==
    [][(/\ Called("updateShape")
        /\ last'.arg[1] \in IdsOf(diagram.shapes)
        /\ NamesNoField(last'.arg[2])) =>
          /\ last'.res.ok
          /\ diagram'.shapes = diagram.shapes
          /\ diagram'.updated_at = to_iso_string(clock')]_vars

====
